---------------------------- MODULE Spec2Model ----------------------------
(***************************************************************************)
(* A model of rebar_tf.py: the REBAR gradient estimator for Bernoulli      *)
(* latent variables (TensorFlow 1.x graph mode, Python 2).                 *)
(*                                                                         *)
(* Three specifications share the variables:                               *)
(*   Spec         the life of one optimizer object: construction of the    *)
(*                graph (REBAROptimizer / RelaxedREBAROptimizer __init__), *)
(*                session evaluations of its operations, and train();      *)
(*   SpecSampler  the reparameterization sampler on one coordinate, in     *)
(*                exact rational arithmetic;                               *)
(*   SpecDeriv    bernoulli_loglikelihood_derivitive on static shapes.     *)
(*                                                                         *)
(* Real numbers.  TLC has integers only.  The sampler is modelled through  *)
(* the strictly increasing map exp: a quantity x = log(r) is represented   *)
(* by r, a non-negative rational <<n, d>>, so that x > 0 iff r > 1 and     *)
(* x = 0 iff r = 1.  log_alpha is represented by the odds alpha =          *)
(* exp(log_alpha), and sigmoid(-log_alpha) = 1 / (1 + alpha) is rational.  *)
(* Uniform draws range over the grid {0, 1/GridN, ..., (GridN-1)/GridN} of *)
(* [0, 1): tf.random_uniform draws from the half-open interval, 0 included.*)
(***************************************************************************)
EXTENDS Integers, Sequences, FiniteSets, TLC

VARIABLES
    cfg,      \* the constructor's arguments
    obj,      \* the attributes of the optimizer object set so far
    status,   \* "new", "built", or the name of the exception construction raised
    vals,     \* per tf.Variable, the evaluation that last assigned it (0: the initializer)
    runs,     \* number of session evaluations made so far
    lastRun,  \* the last session evaluation: what it fetched and which draw each fetch read
    drawLog,  \* per session evaluation, the set of draws its fetches read
    applied,  \* how often each update has been applied by train()
    trainSt,  \* the position of train(): state, iter, n_steps
    probe     \* the pure-function specifications' input and output

vars == <<cfg, obj, status, vals, runs, lastRun, drawLog, applied, trainSt, probe>>

(***************************************************************************)
(* Bounds of the model.                                                    *)
(***************************************************************************)
GridN == 4          \* uniform draws are multiples of 1/GridN
MaxOdds == 3        \* alpha = exp(log_alpha) ranges over n/d, n, d in 1..MaxOdds

(***************************************************************************)
(* Exact non-negative rationals <<n, d>>, d > 0, in lowest terms.          *)
(***************************************************************************)
RECURSIVE Gcd(_, _)
Gcd(a, b) == IF b = 0 THEN a ELSE Gcd(b, a % b)

Rat(n, d) == LET g == Gcd(n, d) IN <<n \div g, d \div g>>

\* a/b < c/d, by integer parts and then the reciprocals of the fractional
\* parts: no product is formed, so nothing overflows.
RECURSIVE FracLess(_, _, _, _)
FracLess(a, b, c, d) ==
    IF a \div b # c \div d THEN a \div b < c \div d
    ELSE IF c % d = 0 THEN FALSE
    ELSE IF a % b = 0 THEN TRUE
    ELSE FracLess(d, c % d, b, a % b)

RLess(x, y) == FracLess(x[1], x[2], y[1], y[2])

RMul(x, y) ==
    LET g1 == Gcd(x[1], y[2])
        g2 == Gcd(y[1], x[2])
    IN  Rat((x[1] \div g1) * (y[1] \div g2), (x[2] \div g2) * (y[2] \div g1))

RDiv(x, y) == RMul(x, <<y[2], y[1]>>)

RAdd(x, y) ==
    LET g == Gcd(x[2], y[2])
    IN  Rat(x[1] * (y[2] \div g) + y[1] * (x[2] \div g), (x[2] \div g) * y[2])

RSub(x, y) ==
    LET g == Gcd(x[2], y[2])
    IN  Rat(x[1] * (y[2] \div g) - y[1] * (x[2] \div g), (x[2] \div g) * y[2])

ROne == <<1, 1>>

(***************************************************************************)
(* safe_log_prob(x, eps=1e-8) = tf.log(tf.clip_by_value(x, eps, 1.0)).     *)
(* EpsInv is 1/eps.  safe_log_prob returns the argument of the log, that   *)
(* is exp of the code's result.                                            *)
(***************************************************************************)
EpsInv == 100000000

clip_by_value(x, lo, hi) ==
    IF RLess(x, lo) THEN lo ELSE IF RLess(hi, x) THEN hi ELSE x

safe_log_prob(x) == clip_by_value(x, <<1, EpsInv>>, ROne)

(***************************************************************************)
(* tf.nn.sigmoid(-log_alpha) = 1 / (1 + alpha).                            *)
(***************************************************************************)
sigmoid_neg(alpha) == Rat(alpha[2], alpha[1] + alpha[2])

(***************************************************************************)
(* REBAROptimizer._create_reparam_variables on one coordinate.             *)
(* alpha is exp(log_alpha); u and proto_v are the two uniform draws.       *)
(* The result holds b and exp(z), exp(z_tilde).                            *)
(***************************************************************************)
HardSample(ez) == IF RLess(ROne, ez) THEN 1 ELSE 0     \* b = to_float(z > 0)

proto_v_1(proto_v, u_prime) == RAdd(RMul(proto_v, RSub(ROne, u_prime)), u_prime)

proto_v_0(proto_v, u_prime) == RMul(proto_v, u_prime)

reparam_element(alpha, u, proto_v) ==
    LET z == RDiv(RMul(alpha, safe_log_prob(u)), safe_log_prob(RSub(ROne, u)))
        b == HardSample(z)
        u_prime == sigmoid_neg(alpha)
        v == IF b = 1 THEN proto_v_1(proto_v, u_prime) ELSE proto_v_0(proto_v, u_prime)
        z_tilde == RDiv(RMul(alpha, safe_log_prob(v)), safe_log_prob(RSub(ROne, v)))
    IN  [b |-> b, z |-> z, z_tilde |-> z_tilde]

Odds == {Rat(n, d) : n \in 1..MaxOdds, d \in 1..MaxOdds}

Uniform == {Rat(i, GridN) : i \in 0..(GridN - 1)}

NoProbe == [op |-> "none"]


(***************************************************************************)
(* Static shapes: sequences of dimensions, as gs(x) returns them.          *)
(***************************************************************************)
MaxDim == 2         \* dim, batch_size and vars_per_row range over 1..MaxDim
MaxSamples == 2     \* n_samples ranges over 1..MaxSamples

RECURSIVE Prod(_)
Prod(s) == IF s = <<>> THEN 1 ELSE Head(s) * Prod(Tail(s))

gs(shape) == shape                                  \* x.get_shape().as_list()

expand_dims(shape, axis) ==                         \* axis counted from 0
    SubSeq(shape, 1, axis) \o <<1>> \o SubSeq(shape, axis + 1, Len(shape))

PadLeft(shape, rank) == [k \in 1..(rank - Len(shape)) |-> 1] \o shape

\* The shape of an elementwise operation on two tensors (numpy broadcasting),
\* or <<0>> when the shapes are incompatible.
BroadcastShape(s1, s2) ==
    LET rank == IF Len(s1) > Len(s2) THEN Len(s1) ELSE Len(s2)
        a == PadLeft(s1, rank)
        b == PadLeft(s2, rank)
    IN  IF \A k \in 1..rank : a[k] = b[k] \/ a[k] = 1 \/ b[k] = 1
        THEN [k \in 1..rank |-> IF a[k] = 1 THEN b[k] ELSE a[k]]
        ELSE <<0>>

\* The index (0-based, per dimension) an operand of shape `shape` contributes
\* to the element `idx` of a broadcast result of the same rank.
BroadcastIndex(shape, idx) ==
    [k \in 1..Len(shape) |-> IF shape[k] = 1 THEN 0 ELSE idx[k]]

\* tf.reshape(x, [rows, -1]) on an x of shape `shape`.
ReshapeRows(shape, rows) == <<rows, Prod(shape) \div rows>>

(***************************************************************************)
(* The differentiable dependencies of the graph the constructor builds:    *)
(* <<x, y>> when y is computed from x by an operation gradients flow       *)
(* through.  tf.stop_gradient (line 116) cuts z -> b.  `uses` says whether *)
(* the callable applied to the relaxed inputs (the loss, or q_func in the  *)
(* surrogate variant) depends differentiably on its argument.              *)
(***************************************************************************)
ModelEdges ==
    { <<"log_alpha", "_log_alpha">>,
      <<"batch_log_temperature", "log_temperature">>,
      <<"log_temperature", "tiled_log_temperature">>,
      <<"tiled_log_temperature", "temperature">>,
      <<"batch_eta", "eta">> }

ReparamEdges ==
    { <<"_log_alpha", "z">>, <<"u", "z">>,
      <<"_log_alpha", "u_prime">>,
      <<"proto_v", "proto_v_1">>, <<"u_prime", "proto_v_1">>,
      <<"proto_v", "proto_v_0">>, <<"u_prime", "proto_v_0">>,
      <<"b", "v">>, <<"proto_v_1", "v">>, <<"proto_v_0", "v">>,
      <<"_log_alpha", "z_tilde">>, <<"v", "z_tilde">> }

LossEdges(uses) ==
    { <<"z", "sig_z">>, <<"temperature", "sig_z">>, <<"_log_alpha", "sig_z">>,
      <<"z_tilde", "sig_z_tilde">>, <<"temperature", "sig_z_tilde">>,
      <<"_log_alpha", "sig_z_tilde">> }
    \cup (IF uses
          THEN { <<"b", "f_b">>, <<"sig_z", "f_z">>, <<"sig_z_tilde", "f_z_tilde">> }
          ELSE {})

\* The backward operations of term2 read the forward values on the path.
GradEdges(term2_exists) ==
    { <<"eta", "eta_e">>, <<"f_b", "f_b_e">>, <<"f_z_tilde", "f_z_tilde_e">>,
      <<"b", "log_p">>, <<"_log_alpha", "log_p">>,
      <<"b", "d_log_p">>, <<"_log_alpha", "d_log_p">>,
      <<"f_b_e", "term1">>, <<"eta_e", "term1">>, <<"f_z_tilde_e", "term1">>,
      <<"d_log_p", "term1">>,
      <<"f_z", "f_diff">>, <<"f_z_tilde", "f_diff">>,
      <<"term1", "rebar">>, <<"eta", "rebar">>,
      <<"rebar", "rebar_sq">>,
      <<"f_b_e", "reinforce">>, <<"d_log_p", "reinforce">> }
    \cup (IF term2_exists
          THEN { <<"sig_z", "term2">>, <<"sig_z_tilde", "term2">>,
                 <<"temperature", "term2">>, <<"_log_alpha", "term2">>,
                 <<"term2", "rebar">> }
          ELSE {})

RECURSIVE Downstream(_, _)
Downstream(S, E) ==
    LET T == S \cup {e[2] : e \in {d \in E : d[1] \in S}}
    IN  IF T = S THEN S ELSE Downstream(T, E)

\* Mutant: a missing gradient is replaced by zeros.
GradientsZeroFilled(y, x, E) == IF y \in Downstream({x}, E) THEN "grad" ELSE "zeros"

\* tf.gradients(y, x)[0]: a gradient when y depends on x, None otherwise.
Gradients(y, x, E) == IF y \in Downstream({x}, E) THEN "grad" ELSE "None"


(***************************************************************************)
(* bernoulli_loglikelihood_derivitive(b, log_alpha) on static shapes:      *)
(* the assertion of line 41, then the shape of the returned tensor.        *)
(***************************************************************************)
\* Mutant: the assertion accepts every pair of shapes that broadcasts.
derivitive_accepting_broadcast(b_shape, log_alpha_shape) ==
    IF BroadcastShape(b_shape, log_alpha_shape) # <<0>>
    THEN [raised |-> "none", shape |-> BroadcastShape(b_shape, log_alpha_shape)]
    ELSE [raised |-> "AssertionError", shape |-> <<>>]

bernoulli_loglikelihood_derivitive(b_shape, log_alpha_shape) ==
    IF gs(b_shape) = gs(log_alpha_shape)
    THEN [raised |-> "none", shape |-> BroadcastShape(b_shape, log_alpha_shape)]
    ELSE [raised |-> "AssertionError", shape |-> <<>>]

(***************************************************************************)
(* The constructor.  Each method is an operator on the object record `o`;  *)
(* a raised exception is recorded in o.err and ends construction.          *)
(***************************************************************************)
EmptyObj ==
    [ attrs |-> {}, err |-> "none",
      dim |-> 0, batch_size |-> 0, n_vars |-> 0,
      log_alpha_kind |-> "unset",
      shape |-> <<>>,             \* static shapes of the tensors, by name
      random_ops |-> {},          \* the nodes that draw anew in every evaluation
      edges |-> {},               \* the differentiable dependencies built so far
      grads |-> <<>>,             \* the results of the tf.gradients calls, by name
      term1 |-> <<>>, reinforce |-> <<>>,
      rebar_gradvars |-> <<>>, variance_gradvars |-> <<>>,
      variance_reduction_op |-> {} ]

Then(o, next) == IF o.err # "none" THEN o ELSE next

Raise(o, e) == [o EXCEPT !.err = e]

SetShape(o, name, sh) == [o EXCEPT !.shape = (name :> sh) @@ @]

\* REBAROptimizer.__init__, lines 48-55: the attributes set from the arguments.
init_attributes(c) ==
    [EmptyObj EXCEPT !.attrs = {"name", "sess", "loss", "dim", "log_alpha",
                               "learning_rate", "n_samples", "variance_optimizer"}
                               \cup (IF c.variant = "surrogate" THEN {"q_func"} ELSE {})]

create_model_parameters(o, c) ==
    LET given == c.log_alpha # <<>>
        sh == c.log_alpha
        flat == IF ~given THEN <<c.dim>>
                ELSE IF Len(sh) > 1 THEN <<Prod(sh)>> ELSE sh
        dim == gs(flat)[1]
        batch_size == IF given THEN sh[1] ELSE 1
        n_vars == dim \div batch_size
        tiled == <<batch_size * n_vars>>
    IN  [o EXCEPT
           !.attrs = @ \cup {"batch_size", "_log_alpha", "batch_log_temperature",
                             "log_temperature", "tiled_log_temperature", "temperature",
                             "batch_eta", "eta"}
                       \cup (IF given /\ Len(sh) = 1 THEN {} ELSE {"batch_log_alpha"}),
           !.dim = dim,
           !.batch_size = batch_size,
           !.n_vars = n_vars,
           !.log_alpha_kind = IF given /\ Len(sh) > 1 THEN "Tensor" ELSE "Variable",
           !.edges = @ \cup ModelEdges,
           !.shape = [ log_alpha |-> flat,
                       _log_alpha |-> expand_dims(flat, 0),
                       batch_log_temperature |-> <<n_vars>>,
                       log_temperature |-> tiled,
                       temperature |-> <<c.n_samples>> \o tiled,
                       batch_eta |-> <<n_vars>>,
                       eta |-> tiled ] ]

\* Mutant: the noise is drawn once, while the graph is built.
RandomOpsDrawnOnce == {}

\* Lines 111 and 119: u and proto_v are tf.random_uniform operations.
RandomOps == {"u", "proto_v"}

create_reparam_variables(o, c) ==
    LET u == <<c.n_samples, o.dim>>
        z == BroadcastShape(o.shape._log_alpha, u)
    IN  [ SetShape(SetShape(SetShape(o, "b", z), "z", z),
                   "z_tilde", BroadcastShape(o.shape._log_alpha, z))
          EXCEPT !.attrs = @ \cup {"b", "z", "z_tilde"},
                 !.random_ops = RandomOps,
                 !.edges = @ \cup ReparamEdges ]

\* Both variants (lines 128-142 and 244-260): the callable sees [batch_size, -1]
\* and returns one scalar per row.
create_loss_evaluations(o, c) ==
    LET sig_z == BroadcastShape(BroadcastShape(o.shape.z, o.shape.temperature),
                                o.shape._log_alpha)
        rows(sh) == ReshapeRows(sh, o.batch_size)
        f(sh) == <<rows(sh)[1]>>
    IN  [ SetShape(SetShape(SetShape(o, "f_b", f(o.shape.b)), "f_z", f(sig_z)),
                   "f_z_tilde", f(sig_z))
          EXCEPT !.attrs = @ \cup {"f_b", "f_z", "f_z_tilde"},
                 !.edges = @ \cup LossEdges(c.uses_input)
                             \cup (IF c.variant = "surrogate"
                                   THEN {<<"b", "f_b">>} ELSE {})
                             \cup (IF c.q_vars = "used"
                                   THEN {<<"Q_var", "f_z">>, <<"Q_var", "f_z_tilde">>}
                                   ELSE {}) ]


\* An operation that consumes the result of tf.gradients (a multiplication,
\* a tf.reshape): handed None, it raises.
Consume(g) == IF g = "None" THEN "ValueError" ELSE "none"

GradVar(grad, var, parts) == [grad |-> grad, var |-> var, parts |-> parts]

\* Mutant: the score-function estimator is handed to the optimizer.
rebar_gradvars_from_reinforce(term2) == << GradVar("reinforce", "log_alpha", {}) >>

\* Line 213: self.rebar_gradvars = [(rebar, self.log_alpha)].  `parts` are the
\* results of the tf.gradients calls the gradient is assembled from.
rebar_gradvars(term2) == << GradVar("rebar", "log_alpha", {term2}) >>

\* Mutant: the variance-reduction update also moves log_alpha.
variance_gradvars_with_log_alpha(term2, d_var_d_eta_v, d_var_d_temperature_v) ==
    << GradVar("d_var_d_eta", "batch_eta", {term2, d_var_d_eta_v}),
       GradVar("d_var_d_temperature", "batch_log_temperature",
               {term2, d_var_d_temperature_v}),
       GradVar("d_var_d_log_alpha", "log_alpha", {term2}) >>

\* Line 214: self.variance_gradvars.
variance_gradvars(term2, d_var_d_eta_v, d_var_d_temperature_v) ==
    << GradVar("d_var_d_eta", "batch_eta", {term2, d_var_d_eta_v}),
       GradVar("d_var_d_temperature", "batch_log_temperature",
               {term2, d_var_d_temperature_v}) >>

create_gradvars(o, c) ==
    LET eta_e == expand_dims(o.shape.eta, 0)
        f_b_e == expand_dims(o.shape.f_b, 1)
        f_z_tilde_e == expand_dims(o.shape.f_z_tilde, 1)
        d_log_p == bernoulli_loglikelihood_derivitive(o.shape.b, o.shape._log_alpha)
        \* (f_b - eta * f_z_tilde) * d_log_p_d_log_alpha, then row [0]
        prod == BroadcastShape(BroadcastShape(f_b_e, BroadcastShape(eta_e, f_z_tilde_e)),
                               d_log_p.shape)
        term1 == [j \in 0..(prod[2] - 1) |->
                    [ f_b |-> BroadcastIndex(f_b_e, <<0, j>>)[1],
                      eta |-> BroadcastIndex(eta_e, <<0, j>>)[2],
                      f_z_tilde |-> BroadcastIndex(f_z_tilde_e, <<0, j>>)[1],
                      d_log_p |-> BroadcastIndex(d_log_p.shape, <<0, j>>) ]]
        rprod == BroadcastShape(f_b_e, d_log_p.shape)
        reinforce == [j \in 0..(rprod[2] - 1) |->
                        [ f_b |-> BroadcastIndex(f_b_e, <<0, j>>)[1],
                          d_log_p |-> BroadcastIndex(d_log_p.shape, <<0, j>>) ]]
        E0 == o.edges \cup GradEdges(FALSE)
        term2 == Gradients("f_diff", "log_alpha", E0)
        E1 == o.edges \cup GradEdges(term2 = "grad")
        d_rebar_d_eta == Gradients("rebar", "eta", E1)
        d_var_d_eta_v == Gradients("rebar_sq", "eta", E1)
        d_rebar_d_temperature == Gradients("rebar", "log_temperature", E1)
        d_var_d_temperature_v == Gradients("rebar_sq", "log_temperature", E1)
        g1 == [term2 |-> term2]
        g2 == [term2 |-> term2, d_rebar_d_eta |-> d_rebar_d_eta]
        g3 == [term2 |-> term2, d_rebar_d_eta |-> d_rebar_d_eta,
               d_var_d_eta_v |-> d_var_d_eta_v]
        g4 == [term2 |-> term2, d_rebar_d_eta |-> d_rebar_d_eta,
               d_var_d_eta_v |-> d_var_d_eta_v,
               d_rebar_d_temperature |-> d_rebar_d_temperature]
        g5 == [term2 |-> term2, d_rebar_d_eta |-> d_rebar_d_eta,
               d_var_d_eta_v |-> d_var_d_eta_v,
               d_rebar_d_temperature |-> d_rebar_d_temperature,
               d_var_d_temperature_v |-> d_var_d_temperature_v]
        fail(g, e) == [o EXCEPT !.err = e, !.grads = g, !.edges = E1]
    IN  IF d_log_p.raised # "none" THEN Raise(o, d_log_p.raised)                \* line 153
        ELSE IF Consume(term2) # "none" THEN fail(g1, Consume(term2))           \* line 168
        ELSE IF Consume(d_rebar_d_eta) # "none"
             THEN fail(g2, Consume(d_rebar_d_eta))                              \* line 177
        ELSE IF Consume(d_var_d_eta_v) # "none"
             THEN fail(g3, Consume(d_var_d_eta_v))                              \* line 185
        ELSE IF Consume(d_rebar_d_temperature) # "none"
             THEN fail(g4, Consume(d_rebar_d_temperature))                      \* line 194
        ELSE IF Consume(d_var_d_temperature_v) # "none"
             THEN fail(g5, Consume(d_var_d_temperature_v))                      \* line 202
        ELSE [ SetShape(SetShape(o, "rebar", ReshapeRows(<<prod[2]>>, o.batch_size)),
                        "reinforce", ReshapeRows(<<rprod[2]>>, o.batch_size))
               EXCEPT
                 !.attrs = @ \cup {"rebar", "reinforce", "rebar_gradvars",
                                   "variance_gradvars"},
                 !.edges = E1,
                 !.grads = g5,
                 !.term1 = term1,
                 !.reinforce = reinforce,
                 !.rebar_gradvars = rebar_gradvars(term2),
                 !.variance_gradvars =
                     variance_gradvars(term2, d_var_d_eta_v, d_var_d_temperature_v) ]

\* Line 66: the operation that applies variance_gradvars.
create_variance_reduction_op(o, c) ==
    [o EXCEPT !.attrs = @ \cup {"variance_reduction_op"},
              !.variance_reduction_op = {"variance_optimizer.apply_gradients"}]

\* REBAROptimizer.__init__, lines 47-66.
REBAROptimizer_init(c) ==
    LET o1 == create_model_parameters(init_attributes(c), c)
        o2 == Then(o1, create_reparam_variables(o1, c))
        o3 == Then(o2, create_loss_evaluations(o2, c))
        o4 == Then(o3, create_gradvars(o3, c))
    IN  Then(o4, create_variance_reduction_op(o4, c))

\* RelaxedREBAROptimizer._Q_gradvars, lines 262-327.  Line 301 indexes Q_vars,
\* line 307 prints the shape of a gradient, line 308 is `1/0`: no path returns.
Q_gradvars(o, c) ==
    LET d_f_z_tilde_d_q_var ==
            Gradients("f_z_tilde_e", "Q_var", o.edges)
    IN  IF c.q_vars = "none" THEN Raise(o, "IndexError")                        \* line 301
        ELSE IF d_f_z_tilde_d_q_var = "None" THEN Raise(o, "AttributeError")    \* line 307
        ELSE Raise(o, "ZeroDivisionError")                                      \* line 308

\* RelaxedREBAROptimizer.__init__, lines 232-241.
RelaxedREBAROptimizer_init(c) ==
    LET o1 == REBAROptimizer_init(c)
        o2 == Then(o1, [o1 EXCEPT !.attrs = @ \cup {"Q_optimizer", "Q_vars"}])
        o3 == Then(o2, Q_gradvars(o2, c))
    IN  Then(o3, [o3 EXCEPT !.attrs = @ \cup {"Q_gradvars", "Q_opt_op"},
                            !.variance_reduction_op =
                                {"Q_optimizer.apply_gradients"} \cup @])

Build(c) ==
    IF c.variant = "surrogate" THEN RelaxedREBAROptimizer_init(c)
    ELSE REBAROptimizer_init(c)


(***************************************************************************)
(* The state machine of one optimizer object.                              *)
(***************************************************************************)
MaxRuns == 2        \* session evaluations made outside train()
MaxSteps == 1       \* train(n_steps) is called with n_steps in 0..MaxSteps

LogAlphaArgs ==
    {<<>>} \cup {<<d>> : d \in 1..MaxDim}
           \cup {<<bs, n>> : bs \in 1..MaxDim, n \in 1..MaxDim}

\* log_alpha and dim are alternatives: dim = 0 stands for dim=None.
Configs ==
    { c \in [ variant : {"direct", "surrogate"},
              n_samples : 1..MaxSamples,
              log_alpha : LogAlphaArgs,
              dim : 0..MaxDim,
              uses_input : BOOLEAN,
              q_vars : {"none", "unused", "used"} ] :
        /\ (c.log_alpha = <<>>) <=> (c.dim > 0)
        /\ (c.variant = "direct") => (c.q_vars = "none") }

Variables == {"log_alpha", "batch_eta", "batch_log_temperature"}

Uninitialized == [v \in Variables |-> -1]

InitialValues == [v \in Variables |-> 0]

NoRun == [id |-> 0, fetches |-> {}, draw |-> <<>>, updated |-> {}]

Idle == [state |-> "idle", iter |-> 0, n_steps |-> 0, main0 |-> 0, var0 |-> 0]

Init ==
    /\ cfg \in Configs
    /\ obj = EmptyObj
    /\ status = "new"
    /\ vals = Uninitialized
    /\ runs = 0
    /\ lastRun = NoRun
    /\ drawLog = <<>>
    /\ applied = [main |-> 0, var |-> 0]
    /\ trainSt = Idle
    /\ probe = NoProbe

\* The call of the constructor.  When __init__ raises, the caller holds no object.
Construct ==
    /\ status = "new"
    /\ obj' = Build(cfg)
    /\ status' = IF obj'.err = "none" THEN "built" ELSE obj'.err
    /\ UNCHANGED <<cfg, vals, runs, lastRun, drawLog, applied, trainSt, probe>>

\* sess.run(tf.global_variables_initializer()), line 511.
Initialize ==
    /\ status = "built"
    /\ trainSt.state # "loop"
    /\ vals' = InitialValues
    /\ UNCHANGED <<cfg, obj, status, runs, lastRun, drawLog, applied, trainSt, probe>>

(***************************************************************************)
(* One session evaluation, sess.run(fetches).  Every node is executed once *)
(* per evaluation; a random operation draws anew each time it is executed, *)
(* anything else keeps the value it got when the graph was built (draw 0). *)
(* The value an update assigns is not computed: a variable is stamped with *)
(* the number of the evaluation that assigned it.                          *)
(***************************************************************************)
\* The update operations: the (gradient, variable) list each one applies.
\* "apply_rebar_gradvars" is the caller's optimizer applied to rebar_gradvars.
OpGradVars(o, op) ==
    CASE op = "apply_rebar_gradvars" -> o.rebar_gradvars
      [] op = "variance_optimizer.apply_gradients" -> o.variance_gradvars
      [] OTHER -> <<>>

\* The update operations a fetch executes.
OpsOf(o, fetch) ==
    CASE fetch = "apply_rebar_gradvars" -> {"apply_rebar_gradvars"}
      [] fetch = "variance_reduction_op" -> o.variance_reduction_op
      [] OTHER -> {}

\* The tensors a fetch evaluates.
TensorsOf(o, fetch) ==
    IF OpsOf(o, fetch) = {} THEN {fetch}
    ELSE UNION {{OpGradVars(o, op)[k].grad : k \in DOMAIN OpGradVars(o, op)}
                    : op \in OpsOf(o, fetch)}

\* Data dependencies: the differentiable ones, b = H(z) behind stop_gradient,
\* and the variance gradients, which differentiate rebar squared.
DataEdges(o) ==
    o.edges \cup { <<"z", "b">>, <<"rebar_sq", "d_var_d_eta">>,
                   <<"rebar_sq", "d_var_d_temperature">> }

Sources == {"u", "proto_v"}

\* The draws a fetch reads in evaluation number `id`: <<source, draw>> pairs.
DrawsRead(o, fetch, id) ==
    { <<src, IF src \in o.random_ops THEN id ELSE 0>> :
        src \in { r \in Sources :
                    TensorsOf(o, fetch) \cap Downstream({r}, DataEdges(o)) # {} } }

\* The variables an evaluation of `fetches` assigns.
Updated(o, fetches) ==
    UNION { UNION {{OpGradVars(o, op)[k].var : k \in DOMAIN OpGradVars(o, op)}
                       : op \in OpsOf(o, f)} : f \in fetches }

Fetchable(o) ==
    {"rebar", "reinforce", "variance_reduction_op"}
    \cup (IF o.log_alpha_kind = "Variable" THEN {"apply_rebar_gradvars"} ELSE {})

SessRun(fetches) ==
    /\ status = "built"
    /\ trainSt.state # "loop"
    /\ vals # Uninitialized
    /\ runs < MaxRuns
    /\ runs' = runs + 1
    /\ lastRun' = [ id |-> runs',
                    fetches |-> fetches,
                    draw |-> [f \in fetches |-> DrawsRead(obj, f, runs')],
                    updated |-> Updated(obj, fetches) ]
    /\ drawLog' = Append(drawLog, UNION {lastRun'.draw[f] : f \in fetches})
    /\ vals' = [v \in Variables |->
                   IF v \in Updated(obj, fetches) THEN runs' ELSE vals[v]]
    /\ applied' = [ main |-> applied.main
                               + (IF "log_alpha" \in Updated(obj, fetches) THEN 1 ELSE 0),
                    var |-> applied.var
                               + (IF "variance_reduction_op" \in fetches THEN 1 ELSE 0) ]
    /\ UNCHANGED <<cfg, obj, status, trainSt, probe>>

Run == \E fetches \in (SUBSET Fetchable(obj)) \ {{}} : SessRun(fetches)

(***************************************************************************)
(* REBAROptimizer.train, lines 216-228.                                    *)
(***************************************************************************)
\* Line 217 initializes the variables, lines 218-220 build summaries.
TrainBegin ==
    /\ status = "built"
    /\ trainSt.state # "loop"
    /\ \E n \in 0..MaxSteps :
         trainSt' = [ state |-> "loop", iter |-> 0, n_steps |-> n,
                      main0 |-> applied.main, var0 |-> applied.var ]
    /\ vals' = InitialValues
    /\ UNCHANGED <<cfg, obj, status, runs, lastRun, drawLog, applied, probe>>

\* getattr(self, name)
GetAttr(o, name) == IF name \in o.attrs THEN "none" ELSE "AttributeError"

\* One iteration, lines 222-228: both branches build the fetch list from
\* self.train_op first.  (`sess` is the script's global session, line 505.)
TrainStep ==
    /\ trainSt.state = "loop"
    /\ trainSt.iter < trainSt.n_steps
    /\ LET raised == GetAttr(obj, "train_op")
       IN  trainSt' = IF raised # "none"
                      THEN [trainSt EXCEPT !.state = raised]
                      ELSE [trainSt EXCEPT !.iter = @ + 1]
    /\ UNCHANGED <<cfg, obj, status, vals, runs, lastRun, drawLog, applied, probe>>

\* The loop ends and train returns.
TrainEnd ==
    /\ trainSt.state = "loop"
    /\ trainSt.iter = trainSt.n_steps
    /\ trainSt' = [trainSt EXCEPT !.state = "returned"]
    /\ UNCHANGED <<cfg, obj, status, vals, runs, lastRun, drawLog, applied, probe>>

Next == Construct \/ Initialize \/ Run \/ TrainBegin \/ TrainStep \/ TrainEnd

Spec == Init /\ [][Next]_vars


(***************************************************************************)
(* Specifications of the pure functions: the inputs are drawn in the       *)
(* initial state, the action applies the function.                         *)
(***************************************************************************)
MaxShapeDim == 2    \* a static dimension is 1..MaxShapeDim, or 0 for None (unknown)

Object0 ==
    /\ cfg = [ variant |-> "direct", n_samples |-> 1, log_alpha |-> <<>>, dim |-> 1,
               uses_input |-> TRUE, q_vars |-> "none" ]
    /\ obj = EmptyObj
    /\ status = "new"
    /\ vals = Uninitialized
    /\ runs = 0
    /\ lastRun = NoRun
    /\ drawLog = <<>>
    /\ applied = [main |-> 0, var |-> 0]
    /\ trainSt = Idle

ObjectUnchanged ==
    UNCHANGED <<cfg, obj, status, vals, runs, lastRun, drawLog, applied, trainSt>>

NoOut == [b |-> -1, z |-> <<0, 1>>, z_tilde |-> <<0, 1>>]

InitSampler ==
    /\ Object0
    /\ probe \in [ op : {"sampler"}, phase : {"drawn"},
                   alpha : Odds, u : Uniform, proto_v : Uniform, out : {NoOut} ]

Sample ==
    /\ probe.op = "sampler"
    /\ probe.phase = "drawn"
    /\ probe' = [probe EXCEPT !.phase = "sampled",
                              !.out = reparam_element(probe.alpha, probe.u, probe.proto_v)]
    /\ ObjectUnchanged

SpecSampler == InitSampler /\ [][Sample]_vars

Shapes ==
    {<<d>> : d \in 0..MaxShapeDim}
    \cup {<<d1, d2>> : d1 \in 0..MaxShapeDim, d2 \in 0..MaxShapeDim}

InitDeriv ==
    /\ Object0
    /\ probe \in [ op : {"deriv"}, phase : {"called"},
                   b : Shapes, log_alpha : Shapes,
                   out : {[raised |-> "pending", shape |-> <<>>]} ]

CallDerivitive ==
    /\ probe.op = "deriv"
    /\ probe.phase = "called"
    /\ probe' = [probe EXCEPT
                   !.phase = "ended",
                   !.out = bernoulli_loglikelihood_derivitive(probe.b, probe.log_alpha)]
    /\ ObjectUnchanged

SpecDeriv == InitDeriv /\ [][CallDerivitive]_vars

(***************************************************************************)
(* The claims.                                                             *)
(***************************************************************************)

\* C1: for every log_alpha and every pair of draws (u, v_raw) in [0,1), the
\* sampler's z_tilde has the sign of b: z_tilde > 0 when b = 1 and z_tilde < 0
\* when b = 0.  (exp(z_tilde) is compared with 1.)
C1_SignOfZTildeMatchesB ==
    (probe.op = "sampler" /\ probe.phase = "sampled") =>
        /\ (probe.out.b = 1) => RLess(ROne, probe.out.z_tilde)
        /\ (probe.out.b = 0) => RLess(probe.out.z_tilde, ROne)

\* C3: bernoulli_loglikelihood_derivitive raises, returning nothing, whenever the
\* static shapes of b and log_alpha differ (also when they would broadcast), and
\* returns a result only when they are equal.
C3_ShapeMismatchFails ==
    (probe.op = "deriv" /\ probe.phase = "ended") =>
        /\ (probe.b # probe.log_alpha) =>
               (probe.out.raised = "AssertionError" /\ probe.out.shape = <<>>)
        /\ (probe.out.raised = "none") =>
               (probe.b = probe.log_alpha /\ probe.out.shape = probe.b)

\* Witness of C3: shapes that broadcast, [2, 2] against [1, 2], were rejected.
C3_Witness ==
    /\ probe.op = "deriv" /\ probe.phase = "ended"
    /\ probe.b = <<2, 2>> /\ probe.log_alpha = <<1, 2>>
    /\ BroadcastShape(probe.b, probe.log_alpha) = <<2, 2>>
    /\ probe.out.raised = "AssertionError"


\* C2: every iteration of train() completes and applies both updates, the main
\* update of log_alpha and the variance-reduction update, so that after k
\* completed iterations each has been applied exactly k times.
C2_TrainAppliesBothUpdates ==
    /\ trainSt.state \in {"idle", "loop", "returned"}
    /\ (trainSt.state \in {"loop", "returned"}) =>
           /\ applied.main - trainSt.main0 = trainSt.iter
           /\ applied.var - trainSt.var0 = trainSt.iter
    /\ (trainSt.state = "returned") => (trainSt.iter = trainSt.n_steps)

\* C4: an evaluation that does not execute the main update leaves log_alpha
\* unchanged (so the variance-reduction update changes eta and log_temperature
\* only), and an evaluation that does not execute the variance-reduction update
\* leaves eta and log_temperature unchanged (so the main update changes
\* log_alpha only).
C4_UpdatesAreFramed ==
    [][ (runs' = runs + 1) =>
          /\ ("apply_rebar_gradvars" \notin lastRun'.fetches) =>
                 (vals'.log_alpha = vals.log_alpha)
          /\ ("variance_reduction_op" \notin lastRun'.fetches) =>
                 /\ vals'.batch_eta = vals.batch_eta
                 /\ vals'.batch_log_temperature = vals.batch_log_temperature
          /\ ("variance_reduction_op" \in lastRun'.fetches) =>
                 {"batch_eta", "batch_log_temperature"} \subseteq lastRun'.updated ]_vars

\* Witness of C4: after an evaluation that ran the main update, the
\* variance-reduction update alone has run: it assigned eta and log_temperature,
\* and log_alpha keeps the value the main update gave it.
C4_Witness ==
    /\ lastRun.fetches = {"variance_reduction_op"}
    /\ lastRun.updated = {"batch_eta", "batch_log_temperature"}
    /\ lastRun.id = 2
    /\ vals.batch_eta = 2 /\ vals.batch_log_temperature = 2
    /\ vals.log_alpha = 1

\* C5: rebar_gradvars is exactly the one pair (rebar, log_alpha); nothing else
\* is supplied as a gradient for log_alpha, and reinforce is in no gradient list.
C5_OnlyRebarDrivesLogAlpha ==
    (status = "built") =>
        LET all == obj.rebar_gradvars \o obj.variance_gradvars
        IN  /\ Len(obj.rebar_gradvars) = 1
            /\ obj.rebar_gradvars[1].grad = "rebar"
            /\ obj.rebar_gradvars[1].var = "log_alpha"
            /\ \A k \in DOMAIN all :
                   /\ all[k].grad # "reinforce"
                   /\ (all[k].var = "log_alpha") => (all[k].grad = "rebar")

\* Witness of C5: a constructed direct-variant object with both gradient lists.
C5_Witness ==
    /\ status = "built"
    /\ Len(obj.rebar_gradvars) = 1
    /\ Len(obj.variance_gradvars) = 2
    /\ "reinforce" \in obj.attrs

\* C6: within one evaluation the gradient applied to log_alpha and those applied
\* to eta and log_temperature read one and the same draw of the noise behind
\* (b, z, z_tilde); and every evaluation reads draws made in that evaluation,
\* never a draw that an earlier evaluation (or the construction) made.
C6_DrawsAreSharedAndFresh ==
    /\ \A f \in lastRun.fetches : \A g \in lastRun.fetches :
           \A p \in lastRun.draw[f] : \A q \in lastRun.draw[g] :
               (p[1] = q[1]) => (p[2] = q[2])
    /\ ({"apply_rebar_gradvars", "variance_reduction_op"} \subseteq lastRun.fetches) =>
           /\ lastRun.draw["apply_rebar_gradvars"] = lastRun.draw["variance_reduction_op"]
           /\ lastRun.draw["apply_rebar_gradvars"]
                  = {<<"u", lastRun.id>>, <<"proto_v", lastRun.id>>}
    /\ \A i \in DOMAIN drawLog :
           /\ drawLog[i] # {}
           /\ \A p \in drawLog[i] : p[2] = i
           /\ \A j \in DOMAIN drawLog : (i # j) => (drawLog[i] \cap drawLog[j] = {})

\* Witness of C6: a second evaluation, after one that reported rebar and
\* reinforce, has applied both updates.
C6_Witness ==
    /\ Len(drawLog) = 2
    /\ lastRun.id = 2
    /\ {"apply_rebar_gradvars", "variance_reduction_op"} \subseteq lastRun.fetches
    /\ drawLog[1] = {<<"u", 1>>, <<"proto_v", 1>>}

\* C7: when a differentiation of the gradient assembly has no path from its
\* target to the variable (the loss ignores its relaxed input), construction
\* ends in an exception and produces no gradient list; and no gradient list ever
\* holds an entry assembled from anything but existing gradients.
C7_MissingGradientRaises ==
    (status # "new") =>
        /\ (~cfg.uses_input \/ \E g \in DOMAIN obj.grads : obj.grads[g] # "grad") =>
               /\ status \in {"ValueError", "AssertionError"}
               /\ obj.rebar_gradvars = <<>>
               /\ obj.variance_gradvars = <<>>
        /\ \A k \in DOMAIN obj.rebar_gradvars : obj.rebar_gradvars[k].parts = {"grad"}
        /\ \A k \in DOMAIN obj.variance_gradvars :
               obj.variance_gradvars[k].parts = {"grad"}

\* Witness of C7: the loss ignores its input, tf.gradients gave None for term2,
\* and construction raised at line 168.
C7_Witness ==
    /\ ~cfg.uses_input
    /\ cfg.n_samples = 1
    /\ DOMAIN obj.grads = {"term2"}
    /\ obj.grads.term2 = "None"
    /\ status = "ValueError"

\* C8: construction of the surrogate variant completes (given one sample per
\* step and a q_func whose trainable variables its output depends on) and leaves
\* a variance_reduction_op that executes both Q_opt_op and the base update.
C8_SurrogateConstructionCompletes ==
    ( /\ status # "new"
      /\ cfg.variant = "surrogate"
      /\ cfg.n_samples = 1 /\ cfg.uses_input /\ cfg.q_vars = "used" ) =>
        /\ status = "built"
        /\ obj.variance_reduction_op
               = {"Q_optimizer.apply_gradients", "variance_optimizer.apply_gradients"}

\* C10: with n_samples = 1 and a batched log_alpha of batch_size rows of
\* vars_per_row coordinates, term1[j] and reinforce[j] use the loss values of
\* row j div vars_per_row, with eta[j] and d_log_p[j].
C10_TermsUseOwnRow ==
    (status = "built" /\ cfg.n_samples = 1 /\ Len(cfg.log_alpha) = 2) =>
        /\ DOMAIN obj.term1 = 0..(cfg.log_alpha[1] * cfg.log_alpha[2] - 1)
        /\ \A j \in DOMAIN obj.term1 :
               LET r == j \div cfg.log_alpha[2]
               IN  /\ obj.term1[j].f_b = r
                   /\ obj.term1[j].f_z_tilde = r
                   /\ obj.term1[j].eta = j
                   /\ obj.term1[j].d_log_p = <<0, j>>
                   /\ obj.reinforce[j].f_b = r
                   /\ obj.reinforce[j].d_log_p = <<0, j>>

\* C11: for every n_samples >= 1 (and a loss that uses its input), construction
\* of the direct variant completes: b has shape [n_samples, dim], the shapes
\* handed to bernoulli_loglikelihood_derivitive at line 153 pass its assert,
\* and rebar and reinforce have shape [batch_size, dim / batch_size].
C11_ConstructionCompletesForAnySamples ==
    (status # "new" /\ cfg.variant = "direct" /\ cfg.uses_input) =>
        /\ status = "built"
        /\ obj.shape.b = <<cfg.n_samples, obj.dim>>
        /\ bernoulli_loglikelihood_derivitive(obj.shape.b,
                                              obj.shape._log_alpha).raised = "none"
        /\ obj.shape.rebar = <<obj.batch_size, obj.dim \div obj.batch_size>>
        /\ obj.shape.reinforce = <<obj.batch_size, obj.dim \div obj.batch_size>>

\* C12: a flat external log_alpha of length d is configured as the flat vector
\* created internally from dim = d (batch_size = 1, vars_per_row = d, batch_eta
\* and batch_log_temperature of d entries each), and every built configuration
\* has dim = batch_size * vars_per_row.
C12_FlatExternalMatchesInternal ==
    (status = "built") =>
        /\ obj.dim = obj.batch_size * obj.n_vars
        /\ (Len(cfg.log_alpha) = 1) =>
               LET d == cfg.log_alpha[1]
                   internal == Build([cfg EXCEPT !.log_alpha = <<>>, !.dim = d])
               IN  /\ internal.err = "none"
                   /\ obj.batch_size = 1
                   /\ obj.n_vars = d
                   /\ obj.shape.batch_eta = <<d>>
                   /\ obj.shape.batch_log_temperature = <<d>>
                   /\ obj.batch_size = internal.batch_size
                   /\ obj.n_vars = internal.n_vars
                   /\ obj.shape.batch_eta = internal.shape.batch_eta
                   /\ obj.shape.batch_log_temperature
                          = internal.shape.batch_log_temperature

=============================================================================
